---- MODULE Spec2Model ----
(***************************************************************************)
(* Model of the two earthquake scripts of this repository:                 *)
(*   earthquake_analysis.py     (the defensive variant, with main())       *)
(*   earthquakes_completed.py   (the concise variant)                      *)
(*                                                                         *)
(* Numbers: magnitudes and coordinates are JSON numbers; they are modelled *)
(* as integers in tenths (45 stands for 4.5, -10 for -1.0).  Only order,   *)
(* equality, sum and truthiness (zero / non-zero) of numbers are used by   *)
(* the code paths modelled here, and scaling by ten preserves all of them. *)
(*                                                                         *)
(* Python values are tagged records [t, n, s]: t is the type tag, n the    *)
(* numeric payload, s the string payload.  A JSON key that is missing from *)
(* its dict is the marker Absent; it never escapes a dict lookup.          *)
(***************************************************************************)
EXTENDS Integers, Sequences, FiniteSets, TLC

VARIABLES script,    \* which script runs: "analysis" | "completed" | "scan"
          response,  \* what requests.get produces (transport, status, body)
          pc,        \* position of the running script
          data,      \* the value bound to `data` in the script
          out,       \* lines printed to standard output so far
          err,       \* "" or the name of the uncaught exception
          trace,     \* names of the functions/blocks that have run
          idx,       \* get_maximum loop: number of features consumed
          accA,      \* get_maximum loop state of earthquake_analysis.py
          accC       \* get_maximum loop state of earthquakes_completed.py

vars == <<script, response, pc, data, out, err, trace, idx, accA, accC>>

----------------------------------------------------------------------------
(* Bounds *)

MaxLen == 2         \* longest collection of fully varied records
MaxPlainLen == 6    \* longest collection of magnitude-only varied records
MaxScanLen == 3     \* longest collection in the get_maximum scan

(* Program constants *)
HTTP_OK == 200
TopN == 5

----------------------------------------------------------------------------
(* Python / JSON values *)

PyNone == [t |-> "None", n |-> 0, s |-> ""]
Absent == [t |-> "absent", n |-> 0, s |-> ""]
Num(x) == [t |-> "num", n |-> x, s |-> ""]
Str(x) == [t |-> "str", n |-> 0, s |-> x]
DateTime(ms) == [t |-> "datetime", n |-> ms, s |-> ""]

\* a JSON array of numbers, or the marker for a missing key
NoList == [t |-> "absent", l |-> <<>>]
List(l) == [t |-> "list", l |-> l]

\* dict.get(key, default)
DictGet(v, default) == IF v = Absent THEN default ELSE v

\* Python truthiness of a number, string or None
Truthy(v) == \/ v.t = "num" /\ v.n # 0
             \/ v.t = "str" /\ v.s # ""
             \/ v.t = "datetime"

\* one feature of the GeoJSON document
Earthquake(mag, place, time, coordinates) ==
    [properties |-> [mag |-> mag, place |-> place, time |-> time],
     geometry |-> [coordinates |-> coordinates]]

\* the parsed document: a dict with a set of keys; `features` is meaningful
\* only when "features" is one of the keys.  The Python value None is NoData.
Doc(keys, features) == [t |-> "dict", keys |-> keys, features |-> features]
NoData == [t |-> "None", keys |-> {}, features |-> <<>>]

\* a response body: text that is JSON for `doc`, or text that is not JSON
JsonText(doc) == [json |-> TRUE, doc |-> doc]
Malformed == [json |-> FALSE, doc |-> NoData]

\* the outcome of a call: the exception raised ("" for none) and the value
Returned(v) == [err |-> "", value |-> v]
Raised(e, v) == [err |-> e, value |-> v]

json_loads_lenient(text) ==
    IF text.json THEN Returned(text.doc) ELSE Returned(Doc({}, <<>>))

\* json.loads(text): the document, or JSONDecodeError when text is not JSON
json_loads(text) ==
    IF text.json THEN Returned(text.doc) ELSE Raised("JSONDecodeError", NoData)

\* a printed line: the fixed text of the print statement and the values
\* interpolated into it
Line(text, args) == <<text, args>>

----------------------------------------------------------------------------
(* earthquake_analysis.py: accessors *)

\* `if data and 'features' in data`
HasFeatures(d) == d.t = "dict" /\ d.keys # {} /\ "features" \in d.keys

count_earthquakes(d) == IF HasFeatures(d) THEN Len(d.features) ELSE 0

get_magnitude(earthquake) == DictGet(earthquake.properties.mag, Num(0))

get_location_unswapped(earthquake) ==
    LET c == earthquake.geometry.coordinates
        coordinates == IF c.t = "absent" THEN <<>> ELSE c.l
    IN IF Len(coordinates) >= 2
       THEN <<Num(coordinates[1]), Num(coordinates[2])>>
       ELSE <<PyNone, PyNone>>

\* Python index 1 is TLA+ index 2, Python index 0 is TLA+ index 1
get_location(earthquake) ==
    LET c == earthquake.geometry.coordinates
        coordinates == IF c.t = "absent" THEN <<>> ELSE c.l
    IN IF Len(coordinates) >= 2
       THEN <<Num(coordinates[2]), Num(coordinates[1])>>
       ELSE <<PyNone, PyNone>>

get_place_name(earthquake) == DictGet(earthquake.properties.place, Str("Unknown"))

get_time(earthquake) ==
    LET time_ms == DictGet(earthquake.properties.time, Num(0))
    IN IF Truthy(time_ms) THEN DateTime(time_ms.n) ELSE PyNone

----------------------------------------------------------------------------
(* earthquake_analysis.py: get_maximum *)

\* loop state before the first iteration; max_earthquake is <<>> for None
\* and <<earthquake>> for a reference to a feature
MaxInit == <<Num(0), <<PyNone, PyNone>>, <<>>>>

MaxStep_NonStrict(acc, earthquake) ==
    LET magnitude == get_magnitude(earthquake)
    IN IF Truthy(magnitude) /\ magnitude.n >= acc[1].n
       THEN <<magnitude, get_location(earthquake), <<earthquake>>>>
       ELSE acc

\* one iteration of the for loop
MaxStep(acc, earthquake) ==
    LET magnitude == get_magnitude(earthquake)
    IN IF Truthy(magnitude) /\ magnitude.n > acc[1].n
       THEN <<magnitude, get_location(earthquake), <<earthquake>>>>
       ELSE acc

RECURSIVE MaxLoop(_, _)
MaxLoop(acc, features) ==
    IF features = <<>> THEN acc
    ELSE MaxLoop(MaxStep(acc, Head(features)), Tail(features))

get_maximum_short(d) ==
    IF ~HasFeatures(d) \/ d.features = <<>>
    THEN <<Num(0), <<PyNone, PyNone>>>>
    ELSE MaxLoop(MaxInit, d.features)

\* a 2-tuple on the early return, a 3-tuple otherwise
get_maximum(d) ==
    IF ~HasFeatures(d)
    THEN <<Num(0), <<PyNone, PyNone>>>>
    ELSE MaxLoop(MaxInit, d.features)

----------------------------------------------------------------------------
(* earthquake_analysis.py: analyze_earthquakes and the final block of main *)

\* the result of running a block: the lines it printed and the exception
\* that ended it ("" when it returned normally)
Ran(lines, e) == [out |-> lines, err |-> e]

\* [get_magnitude(eq) for eq in features if get_magnitude(eq) is not None]
Magnitudes(features) ==
    LET all == [i \in 1..Len(features) |-> get_magnitude(features[i])]
        NotNone(m) == m # PyNone
    IN SelectSeq(all, NotNone)

SeqMin(ms) == CHOOSE x \in {ms[i].n : i \in 1..Len(ms)} :
                  \A j \in 1..Len(ms) : x <= ms[j].n
SeqMax(ms) == CHOOSE x \in {ms[i].n : i \in 1..Len(ms)} :
                  \A j \in 1..Len(ms) : x >= ms[j].n
RECURSIVE SeqSum(_)
SeqSum(ms) == IF ms = <<>> THEN 0 ELSE Head(ms).n + SeqSum(Tail(ms))

\* key=lambda x: get_magnitude(x) or 0
SortKey(x) == LET m == get_magnitude(x) IN IF Truthy(m) THEN m.n ELSE 0

\* sorted(..., reverse=True) is stable: equal keys keep their original order
RECURSIVE InsertDesc(_, _)
InsertDesc(s, x) ==
    IF s = <<>> THEN <<x>>
    ELSE IF SortKey(Head(s)) >= SortKey(x)
         THEN <<Head(s)>> \o InsertDesc(Tail(s), x)
         ELSE <<x>> \o s

RECURSIVE SortedDescFrom(_, _)
SortedDescFrom(s, rest) ==
    IF rest = <<>> THEN s
    ELSE SortedDescFrom(InsertDesc(s, Head(rest)), Tail(rest))

sorted_earthquakes(features) == SortedDescFrom(<<>>, features)

\* s[:k]
Take(s, k) == SubSeq(s, 1, IF Len(s) < k THEN Len(s) ELSE k)

\* a float format spec ({x:.2f}, {x:.4f}) applied to None raises TypeError
Formats(v) == v.t = "num"

\* for i, earthquake in enumerate(sorted_earthquakes[:5]): print(...)
RECURSIVE TopLoop(_, _, _)
TopLoop(lines, rest, i) ==
    IF rest = <<>> THEN Ran(lines, "")
    ELSE LET earthquake == Head(rest)
             magnitude == get_magnitude(earthquake)
         IN IF ~Formats(magnitude) THEN Ran(lines, "TypeError")
            ELSE TopLoop(Append(lines, Line("TopEntry",
                            <<Num(i), magnitude, get_place_name(earthquake),
                              get_time(earthquake)>>)),
                         Tail(rest), i + 1)

\* the `if max_earthquake:` block of analyze_earthquakes (lines 151-170)
StrongestBlock(d, m) ==
    LET l1 == <<Line("=== Strongest Earthquake Information ===", <<>>),
                Line("Magnitude", <<m[1]>>)>>
        l2 == l1 \o <<Line("Location coordinates", m[2]),
                      Line("Place name", <<get_place_name(m[3][1])>>),
                      Line("Time", <<get_time(m[3][1])>>),
                      Line("=== Top 5 Strongest Earthquakes ===", <<>>)>>
    IN IF ~(Formats(m[2][1]) /\ Formats(m[2][2])) THEN Ran(l1, "TypeError")
       ELSE TopLoop(l2, Take(sorted_earthquakes(d.features), TopN), 1)

analyze_earthquakes(d) ==
    IF ~HasFeatures(d)
    THEN Ran(<<Line("No data available for analysis", <<>>)>>, "")
    ELSE
    LET total == count_earthquakes(d)
        l1 == <<Line("=== Earthquake Data Analysis ===", <<>>),
                Line("Total number of earthquakes", <<Num(total)>>)>>
        magnitudes == Magnitudes(d.features)
        \* the mean is printed from sum/len; the line carries both
        l2 == IF magnitudes # <<>>
              THEN l1 \o <<Line("Magnitude range",
                                <<Num(SeqMin(magnitudes)), Num(SeqMax(magnitudes))>>),
                           Line("Average magnitude",
                                <<Num(SeqSum(magnitudes)), Num(Len(magnitudes))>>)>>
              ELSE l1
        m == get_maximum(d)
    IN IF total = 0
       THEN Ran(Append(l1, Line("No earthquake data found", <<>>)), "")
       ELSE IF Len(m) # 3 THEN Ran(l2, "ValueError")
       ELSE IF m[3] = <<>> THEN Ran(l2, "")
       ELSE LET r == StrongestBlock(d, m) IN Ran(l2 \o r.out, r.err)

\* main, lines 190-202
final_results(d) ==
    LET l1 == <<Line("Final Results:", <<>>)>>
        m == get_maximum(d)
    IN IF Len(m) # 3 THEN Ran(l1, "ValueError")
       ELSE IF m[3] = <<>>
            THEN Ran(Append(l1, Line("No earthquake data found", <<>>)), "")
       ELSE LET l2 == l1 \o <<Line("Strongest earthquake in the UK in the last century:", <<>>),
                              Line("Magnitude", <<m[1]>>),
                              Line("Location", <<get_place_name(m[3][1])>>)>>
            IN IF ~(Formats(m[2][1]) /\ Formats(m[2][2])) THEN Ran(l2, "TypeError")
               ELSE Ran(l2 \o <<Line("Coordinates", m[2]),
                                Line("Time", <<get_time(m[3][1])>>)>>, "")

\* explore_data_structure: the lines it prints; every access is a .get with
\* a default or guarded by a membership test
explore_data_structure(d) ==
    LET l1 == <<Line("=== Data Structure Analysis ===", <<>>),
                Line("Main sections in data", <<Num(Cardinality(d.keys))>>)>>
        l2 == IF "metadata" \in d.keys
              THEN Append(l1, Line("Metadata information", <<>>)) ELSE l1
        l3 == IF "features" \in d.keys
              THEN Append(l2, Line("Number of earthquake events",
                                   <<Num(Len(d.features))>>))
              ELSE l2
    IN IF "features" \in d.keys /\ Len(d.features) > 0
       THEN LET first_earthquake == d.features[1]
            IN l3 \o <<Line("Structure of first earthquake event", <<>>),
                       Line("Detailed information of first earthquake",
                            <<DictGet(first_earthquake.properties.mag, Str("N/A")),
                              DictGet(first_earthquake.properties.place, Str("N/A")),
                              DictGet(first_earthquake.properties.time, Str("N/A"))>>)>>
       ELSE l3

----------------------------------------------------------------------------
(* earthquakes_completed.py *)

\* loop state of get_maximum; err names the exception raised inside the loop
MaxInitC == [mag |-> Num(0), loc |-> <<PyNone, PyNone>>, err |-> ""]

\* earthquake['properties']['mag']: a plain subscript
get_magnitude_c(earthquake) ==
    IF earthquake.properties.mag = Absent
    THEN Raised("KeyError", PyNone)
    ELSE Returned(earthquake.properties.mag)

\* earthquake['geometry']['coordinates'], then [1] and [0]
get_location_c(earthquake) ==
    LET c == earthquake.geometry.coordinates
    IN IF c.t = "absent" THEN Raised("KeyError", <<PyNone, PyNone>>)
       ELSE IF Len(c.l) < 2 THEN Raised("IndexError", <<PyNone, PyNone>>)
       ELSE Returned(<<Num(c.l[2]), Num(c.l[1])>>)

\* one iteration of the for loop; an exception ends the loop
MaxStepC(acc, earthquake) ==
    LET m == get_magnitude_c(earthquake)
        magnitude == m.value
        loc == get_location_c(earthquake)
    IN IF acc.err # "" THEN acc
       ELSE IF m.err # "" THEN [acc EXCEPT !.err = m.err]
       ELSE IF Truthy(magnitude) /\ magnitude.n > acc.mag.n
            THEN IF loc.err # "" THEN [acc EXCEPT !.err = loc.err]
                 ELSE [mag |-> magnitude, loc |-> loc.value, err |-> ""]
            ELSE acc

RECURSIVE MaxLoopC(_, _)
MaxLoopC(acc, features) ==
    IF features = <<>> THEN acc
    ELSE MaxLoopC(MaxStepC(acc, Head(features)), Tail(features))

----------------------------------------------------------------------------
(* Inputs *)

\* all sequences over S of length at most n
SeqsUpTo(S, n) == UNION {[1..k -> S] : k \in 0..n}

\* coordinates as (longitude, latitude, depth) in tenths
CoordsA == List(<<-30, 550, 100>>)
CoordsB == List(<<-10, 530, 50>>)
ShortCoords == List(<<-30>>)

\* fully varied records: every optional field may be missing
RichMags == {Absent, PyNone, Num(-10), Num(0), Num(45), Num(52)}
RichRecords ==
    {Earthquake(m, p, t, c) :
        m \in RichMags,
        p \in {Absent, Str("Lochaber, Scotland")},
        t \in {Absent, Num(1000)},
        c \in {NoList, ShortCoords, CoordsA}}

\* magnitude-only variation, for collections longer than the top-N cut
PlainMags == {PyNone, Num(-10), Num(0), Num(45), Num(52)}
PlainRecords ==
    {Earthquake(m, Str("Lochaber, Scotland"), Num(1000), CoordsA) : m \in PlainMags}

Collections == SeqsUpTo(RichRecords, MaxLen) \cup SeqsUpTo(PlainRecords, MaxPlainLen)

\* parsed documents: without `features` (empty, or metadata only), or with it
Docs == {Doc({}, <<>>), Doc({"metadata"}, <<>>)}
            \cup {Doc({"features"}, f) : f \in Collections}

Bodies == {Malformed} \cup {JsonText(d) : d \in Docs}

\* requests.get raises on a transport failure, else yields status and text
TransportError == [ok |-> FALSE, status_code |-> 0, text |-> Malformed]
Responses == {TransportError}
                \cup {[ok |-> TRUE, status_code |-> st, text |-> b] :
                         st \in {HTTP_OK, 404}, b \in Bodies}

\* the scenario of the specification: 4.5 at [-3.0, 55.0, 10],
\* 5.2 at [-1.0, 53.0, 5], then 3.1
Scenario ==
    <<Earthquake(Num(45), Absent, Absent, CoordsA),
      Earthquake(Num(52), Absent, Absent, CoordsB),
      Earthquake(Num(31), Absent, Absent, NoList)>>

ScanMags == {Absent, PyNone, Num(-10), Num(0), Num(45), Num(52)}
ScanRecords ==
    {Earthquake(m, Absent, Absent, c) :
        m \in ScanMags, c \in {NoList, ShortCoords, CoordsA, CoordsB}}
ScanCollections == SeqsUpTo(ScanRecords, MaxScanLen) \cup {Scenario}

----------------------------------------------------------------------------
(* earthquake_analysis.py: main *)

Crash(lines, e, step) ==
    /\ pc' = "crashed"
    /\ err' = e
    /\ out' = out \o lines
    /\ trace' = Append(trace, step)

GetData_NoStatusCheck ==
    /\ script = "analysis" /\ pc = "start"
    /\ LET l1 == <<Line("UK Earthquake Data Analysis", <<>>),
                   Line("Fetching earthquake data from USGS...", <<>>)>>
           l2 == Append(l1, Line("Data retrieved successfully!", <<>>))
       IN IF ~response.ok
          THEN Crash(l1, "ConnectionError", "get_data") /\ UNCHANGED data
          ELSE IF json_loads(response.text).err # ""
          THEN Crash(l2, json_loads(response.text).err, "get_data")
               /\ UNCHANGED data
          ELSE /\ data' = json_loads(response.text).value
               /\ out' = out \o l2
               /\ trace' = trace \o <<"get_data", "json.loads">>
               /\ pc' = "explore"
               /\ UNCHANGED err
    /\ UNCHANGED <<script, response, idx, accA, accC>>

\* main lines 174-182 with get_data (lines 19-43)
GetData ==
    /\ script = "analysis" /\ pc = "start"
    /\ LET l1 == <<Line("UK Earthquake Data Analysis", <<>>),
                   Line("Fetching earthquake data from USGS...", <<>>)>>
           l2 == Append(l1, Line("Data retrieved successfully!", <<>>))
       IN IF ~response.ok
          THEN Crash(l1, "ConnectionError", "get_data") /\ UNCHANGED data
          ELSE IF response.status_code = HTTP_OK
          THEN IF json_loads(response.text).err # ""
               THEN Crash(l2, json_loads(response.text).err, "get_data")
                    /\ UNCHANGED data
               ELSE /\ data' = json_loads(response.text).value
                    /\ out' = out \o l2
                    /\ trace' = trace \o <<"get_data", "json.loads">>
                    /\ pc' = "explore"
                    /\ UNCHANGED err
          ELSE /\ data' = NoData
               /\ out' = out \o l1 \o
                         <<Line("Failed to retrieve data, status code",
                                <<Num(response.status_code)>>),
                           Line("Unable to retrieve data, exiting program", <<>>)>>
               /\ trace' = Append(trace, "get_data")
               /\ pc' = "done"
               /\ UNCHANGED err
    /\ UNCHANGED <<script, response, idx, accA, accC>>

\* main line 185
ExploreDataStructure ==
    /\ script = "analysis" /\ pc = "explore"
    /\ out' = out \o explore_data_structure(data)
    /\ trace' = Append(trace, "explore_data_structure")
    /\ pc' = "analyze"
    /\ UNCHANGED <<script, response, data, err, idx, accA, accC>>

\* main line 188
AnalyzeEarthquakes ==
    /\ script = "analysis" /\ pc = "analyze"
    /\ LET r == analyze_earthquakes(data)
       IN /\ out' = out \o r.out
          /\ err' = r.err
          /\ pc' = IF r.err = "" THEN "final" ELSE "crashed"
    /\ trace' = Append(trace, "analyze_earthquakes")
    /\ UNCHANGED <<script, response, data, idx, accA, accC>>

\* main lines 190-202
FinalResults ==
    /\ script = "analysis" /\ pc = "final"
    /\ LET r == final_results(data)
       IN /\ out' = out \o r.out
          /\ err' = r.err
          /\ pc' = IF r.err = "" THEN "done" ELSE "crashed"
    /\ trace' = Append(trace, "final_results")
    /\ UNCHANGED <<script, response, data, idx, accA, accC>>

----------------------------------------------------------------------------
(* earthquakes_completed.py: the main program *)

\* lines 63-64 with get_data (lines 13-32): no status check
GetDataC ==
    /\ script = "completed" /\ pc = "start"
    /\ LET l1 == <<Line("Fetching earthquake data...", <<>>)>>
       IN IF ~response.ok
          THEN Crash(l1, "ConnectionError", "get_data") /\ UNCHANGED data
          ELSE IF json_loads(response.text).err # ""
          THEN Crash(l1, json_loads(response.text).err, "get_data")
               /\ UNCHANGED data
          ELSE /\ data' = json_loads(response.text).value
               /\ out' = out \o l1
               /\ trace' = trace \o <<"get_data", "json.loads">>
               /\ pc' = "count"
               /\ UNCHANGED err
    /\ UNCHANGED <<script, response, idx, accA, accC>>

\* line 66 with count_earthquakes (line 36): data['features'] is a subscript
CountC ==
    /\ script = "completed" /\ pc = "count"
    /\ IF "features" \notin data.keys
       THEN Crash(<<>>, "KeyError", "count_earthquakes")
       ELSE /\ out' = Append(out, Line("Loaded earthquake events",
                                       <<Num(Len(data.features))>>))
            /\ trace' = Append(trace, "count_earthquakes")
            /\ pc' = "maximum"
            /\ UNCHANGED err
    /\ UNCHANGED <<script, response, data, idx, accA, accC>>

\* lines 68-69 with get_maximum (lines 50-59)
GetMaximumC ==
    /\ script = "completed" /\ pc = "maximum"
    /\ LET r == MaxLoopC(MaxInitC, data.features)
       IN IF r.err # ""
          THEN Crash(<<>>, r.err, "get_maximum")
          ELSE /\ out' = Append(out, Line("Strongest earthquake located at",
                                          <<r.loc[1], r.loc[2], r.mag>>))
               /\ trace' = Append(trace, "get_maximum")
               /\ pc' = "done"
               /\ UNCHANGED err
    /\ UNCHANGED <<script, response, data, idx, accA, accC>>

----------------------------------------------------------------------------
(* Whole runs of either script on one response *)

Init ==
    /\ script \in {"analysis", "completed"}
    /\ response \in Responses
    /\ pc = "start"
    /\ data = NoData
    /\ out = <<>>
    /\ err = ""
    /\ trace = <<>>
    /\ idx = 0
    /\ accA = MaxInit
    /\ accC = MaxInitC

Next ==
    \/ GetData
    \/ ExploreDataStructure
    \/ AnalyzeEarthquakes
    \/ FinalResults
    \/ GetDataC
    \/ CountC
    \/ GetMaximumC

Spec == Init /\ [][Next]_vars

----------------------------------------------------------------------------
(* The two get_maximum loops run side by side over one collection *)

InitScan ==
    /\ script = "scan"
    /\ response = TransportError
    /\ pc = "loop"
    /\ data \in {Doc({"features"}, f) : f \in ScanCollections}
    /\ out = <<>>
    /\ err = ""
    /\ trace = <<>>
    /\ idx = 0
    /\ accA = MaxInit
    /\ accC = MaxInitC

\* one iteration of `for earthquake in data['features']` in each script
ScanIteration ==
    /\ script = "scan" /\ pc = "loop"
    /\ idx < Len(data.features)
    /\ idx' = idx + 1
    /\ accA' = MaxStep(accA, data.features[idx + 1])
    /\ accC' = MaxStepC(accC, data.features[idx + 1])
    /\ UNCHANGED <<script, response, pc, data, out, err, trace>>

\* the loops are exhausted: both functions return
ScanReturn ==
    /\ script = "scan" /\ pc = "loop"
    /\ idx = Len(data.features)
    /\ pc' = "returned"
    /\ UNCHANGED <<script, response, data, out, err, trace, idx, accA, accC>>

NextScan == ScanIteration \/ ScanReturn

SpecScan == InitScan /\ [][NextScan]_vars

----------------------------------------------------------------------------
(* Properties *)

Range(q) == {q[i] : i \in 1..Len(q)}

\* the printed lines whose fixed text is `text`
LinesWith(text) == LET Is(l) == l[1] = text IN SelectSeq(out, Is)

\* the texts of the lines that report a count, a statistic or a maximum
ResultTexts ==
    {"Number of earthquake events", "Total number of earthquakes",
     "Magnitude range", "Average magnitude", "Magnitude",
     "Location coordinates", "Place name", "Time", "TopEntry",
     "Final Results:", "Location", "Coordinates", "No earthquake data found",
     "Loaded earthquake events", "Strongest earthquake located at"}

\* positions of the records whose magnitude is present and not excluded
\* (a number other than 0)
Valid(features) ==
    {i \in 1..Len(features) :
        features[i].properties.mag.t = "num" /\ features[i].properties.mag.n # 0}

\* the position the claim designates: first record carrying the largest
\* non-excluded magnitude
FirstOfTrueMax(features) ==
    CHOOSE i \in Valid(features) :
        /\ \A j \in Valid(features) :
              features[j].properties.mag.n <= features[i].properties.mag.n
        /\ \A j \in Valid(features) :
              features[j].properties.mag.n = features[i].properties.mag.n => i <= j

\* C1: for every collection with at least one valid magnitude, get_maximum
\* returns the true maximum over the present, non-excluded (not null, not 0)
\* magnitudes, together with the first record carrying it and that record's
\* location - for negative magnitudes as well.
C1_MaximumIsTrueMaximum ==
    (script = "scan" /\ pc = "returned" /\ Valid(data.features) # {}) =>
        LET k == FirstOfTrueMax(data.features)
        IN /\ accA[1] = data.features[k].properties.mag
           /\ accA[3] = <<data.features[k]>>
           /\ accA[2] = get_location(data.features[k])

\* the magnitudes of the records whose `mag` is present and not null
PresentMags(features) ==
    LET all == [i \in 1..Len(features) |-> features[i].properties.mag]
        IsNum(m) == m.t = "num"
    IN SelectSeq(all, IsNum)

\* analyze_earthquakes has printed its statistics for a non-empty collection
StatsPrinted ==
    /\ script = "analysis"
    /\ "analyze_earthquakes" \in Range(trace)
    /\ HasFeatures(data) /\ Len(data.features) > 0

\* C2: a record whose `mag` is absent (key missing, or null) contributes
\* nothing to the minimum, maximum and mean printed by analyze_earthquakes,
\* and is still counted in the total.
C2_AbsentMagExcludedFromStats ==
    StatsPrinted =>
        LET pm == PresentMags(data.features)
            range == LinesWith("Magnitude range")
            mean == LinesWith("Average magnitude")
        IN /\ LinesWith("Total number of earthquakes")
                 = <<Line("Total number of earthquakes", <<Num(Len(data.features))>>)>>
           /\ IF pm = <<>>
              THEN range = <<>> /\ mean = <<>>
              ELSE /\ range = <<Line("Magnitude range",
                                     <<Num(SeqMin(pm)), Num(SeqMax(pm))>>)>>
                   /\ Len(mean) = 1
                   \* equal means: sum/len = SeqSum(pm)/Len(pm)
                   /\ mean[1][2][1].n * Len(pm) = SeqSum(pm) * mean[1][2][2].n

\* C3: aggregation and reporting never raise for missing optional fields:
\* whatever fields the records of a collection lack, analyze_earthquakes and
\* the final block of main run to completion.
C3_NoRaiseOnMissingFields ==
    (script = "analysis" /\ HasFeatures(data)) => (pc # "crashed" /\ err = "")

\* C4: a parsed document without a top-level `features` field is treated as
\* an empty collection: get_maximum returns the triple its callers unpack,
\* and main completes, reporting that no earthquake data was found.
C4_NoFeaturesFieldIsEmptyCollection ==
    (script = "analysis" /\ data.t = "dict" /\ "features" \notin data.keys) =>
        /\ Len(get_maximum(data)) = 3
        /\ pc # "crashed" /\ err = ""
        /\ pc = "done" => out[Len(out)] = Line("No earthquake data found", <<>>)

\* the document has a `features` list of length 0
EmptyCollection == data.t = "dict" /\ "features" \in data.keys /\ data.features = <<>>

\* C5: for an empty collection the count is 0, get_maximum yields magnitude 0,
\* location (None, None) and record None, and neither analyze_earthquakes
\* nor main fails.
C5_EmptyCollectionSummary ==
    (script = "analysis" /\ EmptyCollection) =>
        /\ count_earthquakes(data) = 0
        /\ get_maximum(data) = <<Num(0), <<PyNone, PyNone>>, <<>>>>
        /\ pc # "crashed" /\ err = ""
        /\ "analyze_earthquakes" \in Range(trace) =>
              LinesWith("Total number of earthquakes")
                 = <<Line("Total number of earthquakes", <<Num(0)>>)>>
        /\ pc = "done" =>
              /\ trace = <<"get_data", "json.loads", "explore_data_structure",
                           "analyze_earthquakes", "final_results">>
              /\ out[Len(out)] = Line("No earthquake data found", <<>>)
              /\ LinesWith("Magnitude") = <<>>

C5_Witness ==
    /\ script = "analysis" /\ EmptyCollection /\ pc = "done"
    /\ "final_results" \in Range(trace)

\* the magnitude a top-N entry is ranked by (missing treated as 0)
RankKey(m) == IF m.t = "num" THEN m.n ELSE 0

\* C6: for every collection the top-N list reported by analyze_earthquakes
\* has length min(5, collection size) and is in descending magnitude order
\* (missing as 0), also when no record has a positive magnitude.
C6_TopNLengthAndOrder ==
    (script = "analysis" /\ "analyze_earthquakes" \in Range(trace)
        /\ HasFeatures(data)) =>
        LET top == LinesWith("TopEntry")
            n == Len(data.features)
        IN /\ Len(top) = IF n < TopN THEN n ELSE TopN
           /\ \A i \in 1..Len(top) - 1 :
                 RankKey(top[i][2][2]) >= RankKey(top[i + 1][2][2])

\* the fetch came back with a status other than 200
FetchFailed == script = "analysis" /\ response.ok /\ response.status_code # HTTP_OK

\* C7: on a non-200 status get_data reports the failure and yields no data
\* without parsing, and the run stops: nothing but get_data ever runs (no
\* parse, exploration, aggregation, final report or second fetch).
C7_FailedFetchStopsRun ==
    (FetchFailed /\ pc # "start") =>
        /\ pc = "done" /\ err = ""
        /\ data = NoData
        /\ trace = <<"get_data">>
        /\ out = <<Line("UK Earthquake Data Analysis", <<>>),
                   Line("Fetching earthquake data from USGS...", <<>>),
                   Line("Failed to retrieve data, status code",
                        <<Num(response.status_code)>>),
                   Line("Unable to retrieve data, exiting program", <<>>)>>
        /\ ~ENABLED Next

C7_Witness ==
    /\ FetchFailed /\ pc = "done" /\ response.text.json
    /\ HasFeatures(response.text.doc) /\ response.text.doc.features # <<>>

\* the body reaches json.loads: always in earthquakes_completed.py, on
\* status 200 in earthquake_analysis.py
ParseAttempted ==
    /\ response.ok /\ pc # "start"
    /\ script = "completed" \/ response.status_code = HTTP_OK

\* C8: on a malformed body the parse step fails with the decode error, which
\* ends the run, and no partial result is produced in either script: no
\* document is bound, and no count, statistic, maximum or report is printed.
C8_MalformedBodyNoPartialResults ==
    (script \in {"analysis", "completed"} /\ response.ok /\ ~response.text.json) =>
        /\ data = NoData
        /\ "json.loads" \notin Range(trace)
        /\ \A i \in 1..Len(out) : out[i][1] \notin ResultTexts
        /\ ParseAttempted =>
              /\ pc = "crashed" /\ err = "JSONDecodeError"
              /\ trace = <<"get_data">>
              /\ ~ENABLED Next

C8_Witness ==
    /\ script = "completed" /\ response.ok /\ ~response.text.json
    /\ response.status_code = HTTP_OK
    /\ pc = "crashed" /\ err = "JSONDecodeError"

\* what the claim says get_location returns for raw coordinates c
SwappedAxes(c) ==
    IF c.t = "list" /\ Len(c.l) >= 2
    THEN <<Num(c.l[2]), Num(c.l[1])>>
    ELSE <<PyNone, PyNone>>

\* C9: get_location returns (latitude, longitude) for raw (longitude,
\* latitude[, depth]): axes swapped, depth dropped; with fewer than two
\* coordinates the defensive variant returns (None, None).  On the scenario
\* collection get_maximum reports 5.2 at (53.0, -1.0).
C9_LocationSwapsAxes ==
    (script = "scan") =>
        /\ \A i \in 1..Len(data.features) :
              LET e == data.features[i]
                  c == e.geometry.coordinates
              IN /\ get_location(e) = SwappedAxes(c)
                 /\ get_location_c(e).err = "" =>
                       /\ get_location_c(e).value = <<Num(c.l[2]), Num(c.l[1])>>
                       /\ Len(c.l) >= 2
        /\ accA[3] # <<>> =>
              accA[2] = SwappedAxes(accA[3][1].geometry.coordinates)
        /\ (data.features = Scenario /\ pc = "returned") =>
              /\ accA[1] = Num(52) /\ accA[2] = <<Num(530), Num(-10)>>
              /\ accC.mag = Num(52) /\ accC.loc = <<Num(530), Num(-10)>>

C9_Witness ==
    /\ script = "scan" /\ data.features = Scenario /\ pc = "returned"
    /\ accA[3] = <<Scenario[2]>>

\* every record has a `properties.mag` entry (number or null) and at least
\* two coordinates
FullRecords(features) ==
    \A i \in 1..Len(features) :
        /\ features[i].properties.mag # Absent
        /\ features[i].geometry.coordinates.t = "list"
        /\ Len(features[i].geometry.coordinates.l) >= 2

\* C10: on collections whose records all have a `properties.mag` entry and
\* at least two coordinates, the get_maximum of earthquakes_completed.py holds
\* the same (max_magnitude, max_location) as the get_maximum of
\* earthquake_analysis.py at every prefix of the scan.
C10_ScriptsAgree ==
    (script = "scan" /\ FullRecords(data.features)) =>
        /\ accC.err = ""
        /\ accC.mag = accA[1]
        /\ accC.loc = accA[2]

C10_Witness ==
    /\ script = "scan" /\ FullRecords(data.features)
    /\ pc = "returned" /\ idx = 2
    /\ data.features[1].properties.mag = data.features[2].properties.mag
    /\ data.features[1].geometry # data.features[2].geometry
    /\ accA[3] = <<data.features[1]>>

====
